---- MODULE Spec2Model ----
(***************************************************************************)
(* Model of the OSC 633 chunked stream scanner (src/ts/index.ts).          *)
(*                                                                         *)
(* Text is a sequence of one-character tokens.  ESC (0x1B) and BEL (0x07)  *)
(* are written "ESC" and "BEL"; every other character is itself.           *)
(* String indices are 0-based as in the source; Slice, IndexOf and the     *)
(* other helpers follow the semantics of the JavaScript string methods.    *)
(***************************************************************************)
EXTENDS Integers, Sequences, FiniteSets, TLC

(***************************************************************************)
(* Bounds of the explored input space.                                     *)
(***************************************************************************)
MaxSegs == 3
MaxLiveSegs == 2
FragCap == 1
MaxPieces == 3
MaxFields == 3
MaxIsoSegs == 2

(***************************************************************************)
(* Constants of the source.                                                *)
(***************************************************************************)
ESC == "ESC"
OSC633_START == <<ESC, "]", "6", "3", "3", ";">>
ST == "BEL"

A == "A"
B == "B"
C == "C"
D == "D"
E == "E"
P == "P"

\* the value of a missing array element or absent optional field
Undefined == <<"undefined">>

(***************************************************************************)
(* JavaScript string and array primitives used by the source.              *)
(***************************************************************************)
\* s.slice(from, to), 0 <= from, to clamped to the length
Slice(s, from, to) ==
    SubSeq(s, from + 1, IF to > Len(s) THEN Len(s) ELSE to)

\* s.slice(from)
SliceFrom(s, from) == SubSeq(s, from + 1, Len(s))

\* s.indexOf(c, from) for a one-character needle; -1 when absent
RECURSIVE IndexOf(_, _, _)
IndexOf(s, c, from) ==
    IF from < 0 THEN IndexOf(s, c, 0)
    ELSE IF from >= Len(s) THEN -1
    ELSE IF s[from + 1] = c THEN from
    ELSE IndexOf(s, c, from + 1)

\* s.startsWith(p)
StartsWith(s, p) ==
    /\ Len(p) <= Len(s)
    /\ SubSeq(s, 1, Len(p)) = p

\* does the literal pattern pat occur in s at 0-based position i
MatchAt(s, pat, i) ==
    /\ i + Len(pat) <= Len(s)
    /\ SubSeq(s, i + 1, i + Len(pat)) = pat

\* s.replace(/pat/g, rep) for a literal pattern: leftmost matches, left to
\* right, non-overlapping
RECURSIVE ReplaceFrom(_, _, _, _)
ReplaceFrom(s, pat, rep, i) ==
    IF i >= Len(s) THEN <<>>
    ELSE IF MatchAt(s, pat, i)
         THEN rep \o ReplaceFrom(s, pat, rep, i + Len(pat))
         ELSE <<s[i + 1]>> \o ReplaceFrom(s, pat, rep, i + 1)

ReplaceAll(s, pat, rep) == ReplaceFrom(s, pat, rep, 0)

\* s.split(sep) for a one-character separator: one part more than there
\* are separators, part k standing between the (k-1)-th and the k-th
\* separator; "" splits into [""]
Split(s, sep) ==
    LET at == {i \in 1 .. Len(s) : s[i] = sep}
        \* 1-based position of the k-th separator; 0 and Len(s) + 1 stand
        \* for the two ends of s
        cut(k) == IF k = 0 THEN 0
                  ELSE IF k > Cardinality(at) THEN Len(s) + 1
                  ELSE CHOOSE i \in at :
                           Cardinality({j \in at : j < i}) = k - 1
    IN  [k \in 1 .. Cardinality(at) + 1 |->
            SubSeq(s, cut(k - 1) + 1, cut(k) - 1)]

\* parts.join(sep)
RECURSIVE Join(_, _)
Join(parts, sep) ==
    IF Len(parts) = 0 THEN <<>>
    ELSE IF Len(parts) = 1 THEN parts[1]
    ELSE parts[1] \o <<sep>> \o Join(Tail(parts), sep)

\* the concatenation of a list of texts
RECURSIVE Concat(_)
Concat(texts) ==
    IF Len(texts) = 0 THEN <<>> ELSE Head(texts) \o Concat(Tail(texts))

\* parts[i] with 0-based i; undefined past the end
At(parts, i) == IF i < Len(parts) THEN parts[i + 1] ELSE Undefined

(***************************************************************************)
(* Events.                                                                 *)
(***************************************************************************)
\* variant: the sequence text rebuilt without the field separators
InvalidUnseparated(parts, message) ==
    [type     |-> "invalid",
     sequence |-> OSC633_START \o Concat(parts) \o <<ST>>,
     oscType  |-> IF Len(parts) > 0 THEN parts[1] ELSE <<>>,
     parts    |-> parts,
     message  |-> message]

\* variant: empty parts are left out of the rebuilt sequence text
InvalidCompacted(parts, message) ==
    [type     |-> "invalid",
     sequence |-> OSC633_START
                  \o Join(SelectSeq(parts, LAMBDA part : part # <<>>), ";")
                  \o <<ST>>,
     oscType  |-> IF Len(parts) > 0 THEN parts[1] ELSE <<>>,
     parts    |-> parts,
     message  |-> message]

\* new Invalid(parts, message)
Invalid(parts, message) ==
    [type     |-> "invalid",
     sequence |-> OSC633_START \o Join(parts, ";") \o <<ST>>,
     oscType  |-> IF Len(parts) > 0 THEN parts[1] ELSE <<>>,
     parts    |-> parts,
     message  |-> message]

createOutput(value) == [type |-> "output", value |-> value]

\* variant: the backslash marker is substituted first
unescapeValueBackslashFirst(value) ==
    ReplaceAll(
        ReplaceAll(
            ReplaceAll(value, <<"\\", "\\">>, <<"\\">>),
            <<"\\", "x", "3", "b">>, <<";">>),
        <<"\\", "x", "0", "a">>, <<"\n">>)

unescapeValue(value) ==
    ReplaceAll(
        ReplaceAll(
            ReplaceAll(value, <<"\\", "x", "3", "b">>, <<";">>),
            <<"\\", "x", "0", "a">>, <<"\n">>),
        <<"\\", "\\">>, <<"\\">>)

\* variant: an empty exit code counts as none
parseCommandEndFalsy(parts) ==
    [type     |-> D,
     exitCode |-> IF At(parts, 1) = <<>> THEN Undefined ELSE At(parts, 1)]

parseCommandEnd(parts) == [type |-> D, exitCode |-> At(parts, 1)]

\* variant: an empty command counts as a missing one
parseCommandLineFalsy(parts) ==
    LET command == At(parts, 1)
    IN  IF command = Undefined \/ command = <<>>
        THEN Invalid(parts, <<"Missing command parameter">>)
        ELSE [type    |-> E,
              command |-> unescapeValue(command),
              nonce   |-> At(parts, 2)]

\* variant: the nonce is unescaped like the command
parseCommandLineUnescapingNonce(parts) ==
    LET command == At(parts, 1)
    IN  IF command = Undefined
        THEN Invalid(parts, <<"Missing command parameter">>)
        ELSE [type    |-> E,
              command |-> unescapeValue(command),
              nonce   |-> IF At(parts, 2) = Undefined THEN Undefined
                          ELSE unescapeValue(At(parts, 2))]

parseCommandLine(parts) ==
    LET command == At(parts, 1)
    IN  IF command = Undefined
        THEN Invalid(parts, <<"Missing command parameter">>)
        ELSE [type    |-> E,
              command |-> unescapeValue(command),
              nonce   |-> At(parts, 2)]

\* variant: the name-value part is cut at its last '='
parsePropertyUpdateLast(parts) ==
    LET propertyPart == At(parts, 1)
        equals       == {k \in 0 .. Len(propertyPart) - 1 :
                            propertyPart[k + 1] = "="}
        equalIndex   == IF equals = {} THEN -1
                        ELSE CHOOSE k \in equals : \A j \in equals : j <= k
        name         == Slice(propertyPart, 0, equalIndex)
        value        == SliceFrom(propertyPart, equalIndex + 1)
    IN  IF propertyPart = Undefined
        THEN Invalid(parts, <<"Missing name-value parameter">>)
        ELSE IF equalIndex = -1
        THEN Invalid(parts, <<"Invalid property format: missing '='">>)
        ELSE IF name = <<>>
        THEN Invalid(parts, <<"Missing property name">>)
        ELSE [type |-> P, name |-> name, value |-> unescapeValue(value)]

parsePropertyUpdate(parts) ==
    LET propertyPart == At(parts, 1)
        equalIndex   == IndexOf(propertyPart, "=", 0)
        name         == Slice(propertyPart, 0, equalIndex)
        value        == SliceFrom(propertyPart, equalIndex + 1)
    IN  IF propertyPart = Undefined
        THEN Invalid(parts, <<"Missing name-value parameter">>)
        ELSE IF equalIndex = -1
        THEN Invalid(parts, <<"Invalid property format: missing '='">>)
        ELSE IF name = <<>>
        THEN Invalid(parts, <<"Missing property name">>)
        ELSE [type |-> P, name |-> name, value |-> unescapeValue(value)]

\* variant: decode failures are raised instead of returned
parseSequenceRaising(sequence) ==
    LET parts == Split(sequence, ";")
        type  == parts[1]
        entry == CASE type = <<A>> -> [type |-> A]
                   [] type = <<B>> -> [type |-> B]
                   [] type = <<C>> -> [type |-> C]
                   [] type = <<D>> -> parseCommandEnd(parts)
                   [] type = <<E>> -> parseCommandLine(parts)
                   [] type = <<P>> -> parsePropertyUpdate(parts)
                   [] OTHER ->
                        Invalid(parts, <<"Unknown sequence type: ">> \o type)
    IN  IF entry.type = "invalid"
        THEN [type |-> "throw", error |-> entry]
        ELSE entry

\* variant: the identifier is matched without regard to case
parseSequenceCaseless(sequence) ==
    LET parts == Split(sequence, ";")
        type  == parts[1]
    IN  CASE type \in {<<A>>, <<"a">>} -> [type |-> A]
          [] type = <<B>> -> [type |-> B]
          [] type = <<C>> -> [type |-> C]
          [] type = <<D>> -> parseCommandEnd(parts)
          [] type = <<E>> -> parseCommandLine(parts)
          [] type = <<P>> -> parsePropertyUpdate(parts)
          [] OTHER -> Invalid(parts, <<"Unknown sequence type: ">> \o type)

\* variant: parts after a payload-free identifier are rejected
parseSequenceStrict(sequence) ==
    LET parts == Split(sequence, ";")
        type  == parts[1]
    IN  CASE type \in {<<A>>, <<B>>, <<C>>} /\ Len(parts) > 1 ->
               Invalid(parts, <<"Unexpected parameter">>)
          [] type = <<A>> -> [type |-> A]
          [] type = <<B>> -> [type |-> B]
          [] type = <<C>> -> [type |-> C]
          [] type = <<D>> -> parseCommandEnd(parts)
          [] type = <<E>> -> parseCommandLine(parts)
          [] type = <<P>> -> parsePropertyUpdate(parts)
          [] OTHER -> Invalid(parts, <<"Unknown sequence type: ">> \o type)

parseSequence(sequence) ==
    LET parts == Split(sequence, ";")
        type  == parts[1]
    IN  CASE type = <<A>> -> [type |-> A]
          [] type = <<B>> -> [type |-> B]
          [] type = <<C>> -> [type |-> C]
          [] type = <<D>> -> parseCommandEnd(parts)
          [] type = <<E>> -> parseCommandLine(parts)
          [] type = <<P>> -> parsePropertyUpdate(parts)
          [] OTHER -> Invalid(parts, <<"Unknown sequence type: ">> \o type)

\* variant: only the complete family prefix counts as a possible start
isPartialWholeOnly(str) == str = OSC633_START

\* variant: any text shorter than the family prefix counts as a possible
\* start
isPartialByLength(str) == Len(str) < Len(OSC633_START)

\* variant: nothing is held back as a possible start
isPartialNever(str) == FALSE

isPartialOSC633Start(str) ==
    LET prefix == Slice(OSC633_START, 0, Len(str))
    IN  str = prefix

(***************************************************************************)
(* One iteration of the scanning loop of parse (lines 166-218), as a       *)
(* function of the two buffers.  next is "break" (wait for a fragment),    *)
(* "continue" (iterate again) or "yield" (a terminated sequence starts at  *)
(* the first ESC of buffer; outputBuffer already holds the text before     *)
(* it, buffer is cut only after the sequence event has been yielded).      *)
(***************************************************************************)
\* variant: a foreign introducer is left in the buffer
ScanIterationStuck(buffer, outputBuffer) ==
    LET escIndex  == IndexOf(buffer, ESC, 0)
        remaining == SliceFrom(buffer, escIndex)
        stIndex   == IndexOf(buffer, ST, escIndex)
    IN  IF escIndex = -1
        THEN [next |-> "break", buffer |-> <<>>,
              outputBuffer |-> outputBuffer \o buffer]
        ELSE IF ~StartsWith(remaining, OSC633_START)
        THEN IF isPartialOSC633Start(remaining)
             THEN [next |-> "break", buffer |-> SliceFrom(buffer, escIndex),
                   outputBuffer |-> outputBuffer \o Slice(buffer, 0, escIndex)]
             ELSE [next |-> "continue",
                   buffer |-> SliceFrom(buffer, escIndex),
                   outputBuffer |->
                       outputBuffer \o Slice(buffer, 0, escIndex)]
        ELSE IF stIndex = -1
        THEN [next |-> "break", buffer |-> SliceFrom(buffer, escIndex),
              outputBuffer |-> outputBuffer \o Slice(buffer, 0, escIndex)]
        ELSE [next |-> "yield", buffer |-> buffer,
              outputBuffer |-> outputBuffer \o Slice(buffer, 0, escIndex)]

\* variant: while a sequence waits for its terminator the text before it
\* is copied to the accumulator and left in the buffer as well
ScanIterationRescan(buffer, outputBuffer) ==
    LET escIndex  == IndexOf(buffer, ESC, 0)
        remaining == SliceFrom(buffer, escIndex)
        stIndex   == IndexOf(buffer, ST, escIndex)
    IN  IF escIndex = -1
        THEN [next |-> "break", buffer |-> <<>>,
              outputBuffer |-> outputBuffer \o buffer]
        ELSE IF ~StartsWith(remaining, OSC633_START)
        THEN IF isPartialOSC633Start(remaining)
             THEN [next |-> "break", buffer |-> SliceFrom(buffer, escIndex),
                   outputBuffer |-> outputBuffer \o Slice(buffer, 0, escIndex)]
             ELSE [next |-> "continue",
                   buffer |-> SliceFrom(buffer, escIndex + 1),
                   outputBuffer |->
                       outputBuffer \o Slice(buffer, 0, escIndex + 1)]
        ELSE IF stIndex = -1
        THEN [next |-> "break", buffer |-> buffer,
              outputBuffer |-> outputBuffer \o Slice(buffer, 0, escIndex)]
        ELSE [next |-> "yield", buffer |-> buffer,
              outputBuffer |-> outputBuffer \o Slice(buffer, 0, escIndex)]

\* variant: the character after a foreign introducer is passed through
\* with it
ScanIterationSkipping(buffer, outputBuffer) ==
    LET escIndex  == IndexOf(buffer, ESC, 0)
        remaining == SliceFrom(buffer, escIndex)
        stIndex   == IndexOf(buffer, ST, escIndex)
    IN  IF escIndex = -1
        THEN [next |-> "break", buffer |-> <<>>,
              outputBuffer |-> outputBuffer \o buffer]
        ELSE IF ~StartsWith(remaining, OSC633_START)
        THEN IF isPartialOSC633Start(remaining)
             THEN [next |-> "break", buffer |-> SliceFrom(buffer, escIndex),
                   outputBuffer |-> outputBuffer \o Slice(buffer, 0, escIndex)]
             ELSE [next |-> "continue",
                   buffer |-> SliceFrom(buffer, escIndex + 2),
                   outputBuffer |->
                       outputBuffer \o Slice(buffer, 0, escIndex + 2)]
        ELSE IF stIndex = -1
        THEN [next |-> "break", buffer |-> SliceFrom(buffer, escIndex),
              outputBuffer |-> outputBuffer \o Slice(buffer, 0, escIndex)]
        ELSE [next |-> "yield", buffer |-> buffer,
              outputBuffer |-> outputBuffer \o Slice(buffer, 0, escIndex)]

\* variant: a foreign introducer is dropped instead of passed through
ScanIterationDropping(buffer, outputBuffer) ==
    LET escIndex  == IndexOf(buffer, ESC, 0)
        remaining == SliceFrom(buffer, escIndex)
        stIndex   == IndexOf(buffer, ST, escIndex)
    IN  IF escIndex = -1
        THEN [next |-> "break", buffer |-> <<>>,
              outputBuffer |-> outputBuffer \o buffer]
        ELSE IF ~StartsWith(remaining, OSC633_START)
        THEN IF isPartialOSC633Start(remaining)
             THEN [next |-> "break", buffer |-> SliceFrom(buffer, escIndex),
                   outputBuffer |-> outputBuffer \o Slice(buffer, 0, escIndex)]
             ELSE [next |-> "continue",
                   buffer |-> SliceFrom(buffer, escIndex + 1),
                   outputBuffer |->
                       outputBuffer \o Slice(buffer, 0, escIndex)]
        ELSE IF stIndex = -1
        THEN [next |-> "break", buffer |-> SliceFrom(buffer, escIndex),
              outputBuffer |-> outputBuffer \o Slice(buffer, 0, escIndex)]
        ELSE [next |-> "yield", buffer |-> buffer,
              outputBuffer |-> outputBuffer \o Slice(buffer, 0, escIndex)]

ScanIteration(buffer, outputBuffer) ==
    LET escIndex  == IndexOf(buffer, ESC, 0)
        remaining == SliceFrom(buffer, escIndex)
        stIndex   == IndexOf(buffer, ST, escIndex)
    IN  IF escIndex = -1
        THEN [next |-> "break", buffer |-> <<>>,
              outputBuffer |-> outputBuffer \o buffer]
        ELSE IF ~StartsWith(remaining, OSC633_START)
        THEN IF isPartialOSC633Start(remaining)
             THEN [next |-> "break", buffer |-> SliceFrom(buffer, escIndex),
                   outputBuffer |-> outputBuffer \o Slice(buffer, 0, escIndex)]
             ELSE [next |-> "continue",
                   buffer |-> SliceFrom(buffer, escIndex + 1),
                   outputBuffer |->
                       outputBuffer \o Slice(buffer, 0, escIndex + 1)]
        ELSE IF stIndex = -1
        THEN [next |-> "break", buffer |-> SliceFrom(buffer, escIndex),
              outputBuffer |-> outputBuffer \o Slice(buffer, 0, escIndex)]
        ELSE [next |-> "yield", buffer |-> buffer,
              outputBuffer |-> outputBuffer \o Slice(buffer, 0, escIndex)]

\* variant: the accumulator is flushed whether or not it holds text
HasOutputAlways(outputBuffer) == Len(outputBuffer) >= 0

\* outputBuffer.length > 0 (line 207)
HasOutput(outputBuffer) == Len(outputBuffer) > 0

\* variant: the final flush needs text in both buffers
HasResidueBoth(outputBuffer, buffer) ==
    Len(outputBuffer) > 0 /\ Len(buffer) > 0

\* outputBuffer.length > 0 || buffer.length > 0 (line 222)
HasResidue(outputBuffer, buffer) == Len(outputBuffer) > 0 \/ Len(buffer) > 0

\* variant: the body taken from one character too early
SequenceBodyEarly(buffer) ==
    LET escIndex == IndexOf(buffer, ESC, 0)
        stIndex  == IndexOf(buffer, ST, escIndex)
    IN  Slice(buffer, escIndex + Len(OSC633_START) - 1, stIndex)

\* the raw body of the sequence found in buffer (line 213)
SequenceBody(buffer) ==
    LET escIndex == IndexOf(buffer, ESC, 0)
        stIndex  == IndexOf(buffer, ST, escIndex)
    IN  Slice(buffer, escIndex + Len(OSC633_START), stIndex)

\* variant: the rest of the buffer is dropped with the sequence
AfterSequenceDropAll(buffer) == <<>>

\* the buffer after the sequence found in it (line 217)
AfterSequence(buffer) ==
    LET escIndex == IndexOf(buffer, ESC, 0)
        stIndex  == IndexOf(buffer, ST, escIndex)
    IN  SliceFrom(buffer, stIndex + 1)

(***************************************************************************)
(* A fault raised inside the generator body propagates out of parse to the *)
(* consumer; it is written as a value so that the scanner can propagate    *)
(* it.  Nothing in the source raises: decode failures are Invalid values.  *)
(***************************************************************************)
Raise(error) == [type |-> "throw", error |-> error]

(***************************************************************************)
(* The input space: the total text of the source is a concatenation of at  *)
(* most MaxSegs segments; the source cuts it into fragments at arbitrary   *)
(* character boundaries when it delivers them.                             *)
(***************************************************************************)
Segments ==
    { OSC633_START \o <<"A", ST>>,      \* a complete well-formed sequence
      OSC633_START \o <<"E", ST>>,      \* a complete malformed sequence
      OSC633_START,                     \* the family prefix alone
      <<ESC, "]">>,                     \* a proper prefix of the family prefix
      <<ESC>>,                          \* a lone introducer
      <<ST>>,                           \* a lone terminator
      <<"A", ";">> }                    \* plain text, or a body with an
                                        \* extra (empty) part

\* the shorter catalogue used where every behaviour is followed to its end
LiveSegments ==
    { OSC633_START \o <<"A", ST>>,
      <<ESC>>,
      <<"A", ";">> }

\* the concatenations of at most n segments of a catalogue
RECURSIVE Texts(_, _)
Texts(segments, n) ==
    IF n = 0 THEN {<<>>}
    ELSE LET shorter == Texts(segments, n - 1)
         IN  shorter \cup {t \o s : t \in shorter, s \in segments}

(***************************************************************************)
(* State.                                                                  *)
(*   total        the whole text the source holds (never changes)          *)
(*   rest         the part of total the source has not delivered yet       *)
(*   source       "open", "ended" (exhausted) or "failed"                  *)
(*   carries      number of non-empty fragments that arrived while buffer  *)
(*                still held text of an earlier one, counted to FragCap    *)
(*   emptyChunk   the fragment delivered last was the empty text           *)
(*   buffer       the pending-input buffer of parse                        *)
(*   outputBuffer the pending-output accumulator of parse                  *)
(*   pc           where the generator stands:                              *)
(*                  "next"   awaiting the next fragment (line 163)         *)
(*                  "scan"   at the head of the while loop (line 166)      *)
(*                  "out"    suspended at yield createOutput (line 208)    *)
(*                  "seq"    suspended at yield parseSequence (line 214)   *)
(*                  "fin"    suspended at the final yield (line 223)       *)
(*                  "done"   returned                                      *)
(*                  "thrown" ended by a fault                              *)
(*   demand       the consumer has called next() and awaits its result     *)
(*   events       the events the consumer has received, in order           *)
(*   raws         for each event, the input text it was produced from      *)
(*   peer         a second call of parse, over a source of its own: the    *)
(*                text of that source, what is left of it, the two buffers *)
(*                of the call, the events it has emitted, and whether it   *)
(*                has completed                                            *)
(***************************************************************************)
VARIABLES total, rest, source, carries, emptyChunk, buffer, outputBuffer,
          pc, demand, events, raws, peer

vars == <<total, rest, source, carries, emptyChunk, buffer, outputBuffer,
          pc, demand, events, raws, peer>>

Start ==
    /\ rest = total
    /\ source = "open"
    /\ carries = 0
    /\ emptyChunk = FALSE
    /\ buffer = <<>>
    /\ outputBuffer = <<>>
    /\ pc = "next"
    /\ demand = FALSE
    /\ events = <<>>
    /\ raws = <<>>

\* no second call of parse is made
NoPeer ==
    [total |-> <<>>, rest |-> <<>>, buffer |-> <<>>, outputBuffer |-> <<>>,
     events |-> <<>>, done |-> TRUE]

Init == total \in Texts(Segments, MaxSegs) /\ Start /\ peer = NoPeer

\* the text of the sequence found in buffer, introducer to terminator
RawSequence(buffer_) ==
    LET escIndex == IndexOf(buffer_, ESC, 0)
        stIndex  == IndexOf(buffer_, ST, escIndex)
    IN  Slice(buffer_, escIndex, stIndex + 1)

\* yield parseSequence(sequence) (lines 213-214)
EmitSequence ==
    LET entry == parseSequence(SequenceBody(buffer))
    IN  IF entry.type = "throw"
        THEN /\ pc' = "thrown"
             /\ demand' = FALSE
             /\ UNCHANGED <<events, raws>>
        ELSE /\ events' = Append(events, entry)
             /\ raws' = Append(raws, RawSequence(buffer))
             /\ pc' = "seq"
             /\ demand' = FALSE

\* the consumer asks for the next event
Request ==
    /\ ~demand
    /\ pc \notin {"done", "thrown"}
    /\ demand' = TRUE
    /\ UNCHANGED <<peer, emptyChunk, total, rest, source, carries, buffer,
                   outputBuffer, pc, events, raws>>

\* variant: fragments are read ahead of the consumer's requests
DeliverEager ==
    /\ pc = "next" /\ source = "open"
    /\ \E n \in 0 .. Len(rest) :
          LET chunk == Slice(rest, 0, n)
          IN  /\ buffer' = buffer \o chunk
              /\ rest' = SliceFrom(rest, n)
              /\ carries' = IF n > 0 /\ Len(buffer) > 0 /\ carries < FragCap
                            THEN carries + 1 ELSE carries
              /\ emptyChunk' = (n = 0)
    /\ pc' = "scan"
    /\ demand' = TRUE
    /\ UNCHANGED <<total, source, outputBuffer, events, raws, peer>>

\* the source delivers the next fragment: buffer += chunk (lines 163-164)
Deliver ==
    /\ pc = "next" /\ demand /\ source = "open"
    /\ \E n \in 0 .. Len(rest) :
          LET chunk == Slice(rest, 0, n)
          IN  /\ buffer' = buffer \o chunk
              /\ rest' = SliceFrom(rest, n)
              /\ carries' = IF n > 0 /\ Len(buffer) > 0 /\ carries < FragCap
                            THEN carries + 1 ELSE carries
              /\ emptyChunk' = (n = 0)
    /\ pc' = "scan"
    /\ UNCHANGED <<total, source, outputBuffer, demand, events, raws, peer>>

\* variant: the pending output is emitted whenever the loop is left to
\* wait for a fragment
ScanFlushing ==
    /\ pc = "scan" /\ demand
    /\ IF Len(buffer) = 0
       THEN /\ pc' = "next"
            /\ UNCHANGED <<buffer, outputBuffer, demand, events, raws>>
       ELSE LET r == ScanIteration(buffer, outputBuffer)
            IN  /\ buffer' = r.buffer
                /\ IF r.next = "break"
                   THEN IF HasOutput(r.outputBuffer)
                        THEN /\ events' =
                                   Append(events,
                                          createOutput(r.outputBuffer))
                             /\ raws' = Append(raws, r.outputBuffer)
                             /\ outputBuffer' = <<>>
                             /\ pc' = "next"
                             /\ demand' = FALSE
                        ELSE /\ outputBuffer' = r.outputBuffer
                             /\ pc' = "next"
                             /\ UNCHANGED <<demand, events, raws>>
                   ELSE IF r.next = "continue"
                   THEN /\ outputBuffer' = r.outputBuffer
                        /\ pc' = "scan"
                        /\ UNCHANGED <<demand, events, raws>>
                   ELSE IF HasOutput(r.outputBuffer)
                   THEN /\ outputBuffer' = r.outputBuffer
                        /\ events' =
                              Append(events, createOutput(r.outputBuffer))
                        /\ raws' = Append(raws, r.outputBuffer)
                        /\ pc' = "out"
                        /\ demand' = FALSE
                   ELSE /\ outputBuffer' = r.outputBuffer
                        /\ EmitSequence
    /\ UNCHANGED <<peer, emptyChunk, total, rest, source, carries>>

\* one iteration of the while loop (lines 166-218), up to its first yield
Scan ==
    /\ pc = "scan" /\ demand
    /\ IF Len(buffer) = 0
       THEN /\ pc' = "next"
            /\ UNCHANGED <<buffer, outputBuffer, demand, events, raws>>
       ELSE LET r == ScanIteration(buffer, outputBuffer)
            IN  /\ outputBuffer' = r.outputBuffer
                /\ buffer' = r.buffer
                /\ IF r.next = "break"
                   THEN /\ pc' = "next"
                        /\ UNCHANGED <<demand, events, raws>>
                   ELSE IF r.next = "continue"
                   THEN /\ pc' = "scan"
                        /\ UNCHANGED <<demand, events, raws>>
                   ELSE IF HasOutput(r.outputBuffer)
                   THEN /\ events' =
                              Append(events, createOutput(r.outputBuffer))
                        /\ raws' = Append(raws, r.outputBuffer)
                        /\ pc' = "out"
                        /\ demand' = FALSE
                   ELSE EmitSequence
    /\ UNCHANGED <<peer, emptyChunk, total, rest, source, carries>>

\* resumed after yield createOutput: outputBuffer = "" and the sequence
\* event (lines 209-214)
ResumeOut ==
    /\ pc = "out" /\ demand
    /\ outputBuffer' = <<>>
    /\ EmitSequence
    /\ UNCHANGED <<peer, emptyChunk, total, rest, source, carries, buffer>>

\* variant: after a sequence the loop is left and the next fragment awaited
ResumeSeqWaiting ==
    /\ pc = "seq" /\ demand
    /\ buffer' = AfterSequence(buffer)
    /\ pc' = "next"
    /\ UNCHANGED <<peer, emptyChunk, total, rest, source, carries,
                   outputBuffer, demand, events, raws>>

\* resumed after yield parseSequence: the buffer is cut after the
\* terminator (line 217)
ResumeSeq ==
    /\ pc = "seq" /\ demand
    /\ buffer' = AfterSequence(buffer)
    /\ pc' = "scan"
    /\ UNCHANGED <<peer, emptyChunk, total, rest, source, carries,
                   outputBuffer, demand, events, raws>>

\* variant: a sequence still open at the end is reported as malformed
SourceEndReporting ==
    /\ pc = "next" /\ demand /\ source = "open"
    /\ rest = <<>>
    /\ source' = "ended"
    /\ IF StartsWith(buffer, OSC633_START)
       THEN /\ events' =
                  Append(events,
                         Invalid(Split(SliceFrom(buffer, Len(OSC633_START)),
                                       ";"),
                                 <<"Unterminated sequence">>))
            /\ raws' = Append(raws, buffer)
            /\ pc' = "fin"
       ELSE IF HasResidue(outputBuffer, buffer)
       THEN /\ events' = Append(events, createOutput(outputBuffer \o buffer))
            /\ raws' = Append(raws, outputBuffer \o buffer)
            /\ pc' = "fin"
       ELSE /\ pc' = "done"
            /\ UNCHANGED <<events, raws>>
    /\ demand' = FALSE
    /\ UNCHANGED <<peer, emptyChunk, total, rest, carries, buffer,
                   outputBuffer>>

\* the source is exhausted: the for-await loop ends and the remaining
\* text is flushed (lines 221-224)
SourceEnd ==
    /\ pc = "next" /\ demand /\ source = "open"
    /\ rest = <<>>
    /\ source' = "ended"
    /\ IF HasResidue(outputBuffer, buffer)
       THEN /\ events' = Append(events, createOutput(outputBuffer \o buffer))
            /\ raws' = Append(raws, outputBuffer \o buffer)
            /\ pc' = "fin"
       ELSE /\ pc' = "done"
            /\ UNCHANGED <<events, raws>>
    /\ demand' = FALSE
    /\ UNCHANGED <<peer, emptyChunk, total, rest, carries, buffer,
                   outputBuffer>>

\* resumed after the final yield: the generator returns (line 225)
ResumeFinal ==
    /\ pc = "fin" /\ demand
    /\ pc' = "done"
    /\ demand' = FALSE
    /\ UNCHANGED <<peer, emptyChunk, total, rest, source, carries, buffer,
                   outputBuffer, events, raws>>

\* variant: the pending text is flushed before the fault is passed on
SourceFailFlushing ==
    /\ pc = "next" /\ demand /\ source = "open"
    /\ source' = "failed"
    /\ pc' = "thrown"
    /\ demand' = FALSE
    /\ IF HasResidue(outputBuffer, buffer)
       THEN /\ events' = Append(events, createOutput(outputBuffer \o buffer))
            /\ raws' = Append(raws, outputBuffer \o buffer)
       ELSE UNCHANGED <<events, raws>>
    /\ UNCHANGED <<peer, emptyChunk, total, rest, carries, buffer,
                   outputBuffer>>

\* the source fails instead of producing a fragment: the fault leaves
\* the for-await loop and parse (line 163)
SourceFail ==
    /\ pc = "next" /\ demand /\ source = "open"
    /\ source' = "failed"
    /\ pc' = "thrown"
    /\ demand' = FALSE
    /\ UNCHANGED <<peer, emptyChunk, total, rest, carries, buffer,
                   outputBuffer, events, raws>>

Next ==
    \/ Request
    \/ Deliver
    \/ Scan
    \/ ResumeOut
    \/ ResumeSeq
    \/ SourceEnd
    \/ ResumeFinal
    \/ SourceFail

Spec == Init /\ [][Next]_vars

(***************************************************************************)
(* The scanner under a consumer that keeps asking for events and a source  *)
(* that delivers finitely many fragments: the generator runs on whenever   *)
(* it has been resumed, and the source does not go on forever delivering   *)
(* empty fragments (it delivers text, ends or fails).                      *)
(***************************************************************************)
InitLive ==
    total \in Texts(LiveSegments, MaxLiveSegs) /\ Start /\ peer = NoPeer

SourceProgress ==
    \/ SourceEnd
    \/ SourceFail
    \/ Deliver /\ rest' # rest

LiveSpec ==
    /\ InitLive
    /\ [][Next]_vars
    /\ WF_vars(Request)
    /\ WF_vars(Scan)
    /\ WF_vars(ResumeOut)
    /\ WF_vars(ResumeSeq)
    /\ WF_vars(ResumeFinal)
    /\ SF_vars(SourceProgress)

\* parse run on a source that delivers text as a single fragment: the
\* while loop to its end (lines 166-218) ...
RECURSIVE Drain(_, _, _)
Drain(buf, out, evs) ==
    IF Len(buf) = 0
    THEN [buffer |-> buf, outputBuffer |-> out, events |-> evs]
    ELSE LET r == ScanIteration(buf, out)
         IN  IF r.next = "break"
             THEN [buffer |-> r.buffer, outputBuffer |-> r.outputBuffer,
                   events |-> evs]
             ELSE IF r.next = "continue"
             THEN Drain(r.buffer, r.outputBuffer, evs)
             ELSE Drain(AfterSequence(buf), <<>>,
                        evs
                        \o (IF HasOutput(r.outputBuffer)
                            THEN <<createOutput(r.outputBuffer)>> ELSE <<>>)
                        \o <<parseSequence(SequenceBody(buf))>>)

\* ... and the final flush (lines 221-224)
ParseWhole(text) ==
    LET d == Drain(text, <<>>, <<>>)
    IN  d.events
        \o (IF HasResidue(d.outputBuffer, d.buffer)
            THEN <<createOutput(d.outputBuffer \o d.buffer)>> ELSE <<>>)

(***************************************************************************)
(* The decoders exercised one sequence at a time, the way the tests of     *)
(* the repository do (parseToArray, src/ts/index.test.ts lines 29-38): the *)
(* source holds one text, delivers it as a single fragment and ends, and   *)
(* the consumer collects every event.  The text is either one sequence     *)
(* (family prefix, body, terminator) or plain text.  A body is an          *)
(* identifier, optionally followed by a first field made of at most        *)
(* MaxPieces pieces and then by short later fields, MaxFields fields at    *)
(* most.                                                                   *)
(***************************************************************************)
Pieces ==
    { <<"\\">>,                 \* a backslash
      <<"x", "3", "b">>,        \* with a backslash before: the ';' marker
      <<"x", "0", "a">>,        \* with a backslash before: the newline marker
      <<"n", "=">>,             \* a property name and its '='
      <<"=">> }

Identifiers ==
    { <<A>>, <<B>>, <<C>>, <<D>>, <<E>>, <<P>>,
      <<>>, <<"a">>, <<A, A>> }

LaterFields == { <<>>, <<"\\", "x", "3", "b">> }

\* the lists of at most n elements of S
RECURSIVE Tuples(_, _)
Tuples(S, n) ==
    IF n = 0 THEN {<<>>}
    ELSE LET shorter == Tuples(S, n - 1)
         IN  shorter \cup {Append(t, x) : t \in shorter, x \in S}

Fields == Texts(Pieces, MaxPieces)

Bodies ==
    Identifiers
    \cup {Join(<<id, f>> \o later, ";") :
             id \in Identifiers, f \in Fields,
             later \in Tuples(LaterFields, MaxFields - 1)}

DecodeTexts ==
    {OSC633_START \o body \o <<ST>> : body \in Bodies}
    \cup (Fields \ {<<>>})

InitDecode == total \in DecodeTexts /\ Start /\ peer = NoPeer

\* the input text behind each event of Drain(buf, out, <<>>)
RECURSIVE DrainRaws(_, _)
DrainRaws(buf, out) ==
    IF Len(buf) = 0 THEN <<>>
    ELSE LET r == ScanIteration(buf, out)
         IN  IF r.next = "break" THEN <<>>
             ELSE IF r.next = "continue"
             THEN DrainRaws(r.buffer, r.outputBuffer)
             ELSE (IF HasOutput(r.outputBuffer)
                   THEN <<r.outputBuffer>> ELSE <<>>)
                  \o <<RawSequence(buf)>>
                  \o DrainRaws(AfterSequence(buf), <<>>)

\* for await (const entry of parse(stream)) results.push(entry), on a
\* source of one fragment: the while loop to its end and the final flush
ParseToArray ==
    /\ pc = "next" /\ ~demand /\ source = "open" /\ rest = total
    /\ \E d \in {Drain(total, <<>>, <<>>)} :
          /\ buffer' = d.buffer
          /\ outputBuffer' = d.outputBuffer
          /\ IF HasResidue(d.outputBuffer, d.buffer)
             THEN /\ events' =
                        d.events \o <<createOutput(d.outputBuffer \o d.buffer)>>
                  /\ raws' =
                        DrainRaws(total, <<>>) \o <<d.outputBuffer \o d.buffer>>
             ELSE /\ events' = d.events
                  /\ raws' = DrainRaws(total, <<>>)
    /\ rest' = <<>>
    /\ source' = "ended"
    /\ pc' = "done"
    /\ UNCHANGED <<peer, emptyChunk, total, carries, demand>>

DecodeSpec == InitDecode /\ [][ParseToArray]_vars

(***************************************************************************)
(* Two calls of parse over two sources.  The first call is the scanner     *)
(* above; the second, peer, is the same code followed one fragment at a    *)
(* time under a consumer that collects every event as soon as it can be    *)
(* emitted.  The two sources hold texts over different letters.            *)
(***************************************************************************)
IsoSegments == { OSC633_START \o <<A, ST>>, <<A, ";">> }

PeerTexts ==
    { <<B, ";">> \o OSC633_START \o <<B, ST>>,   \* text, then a sequence
      OSC633_START \o <<B>> }                     \* an unterminated sequence

InitIso ==
    /\ total \in Texts(IsoSegments, MaxIsoSegs)
    /\ Start
    /\ \E text \in PeerTexts :
          peer = [total |-> text, rest |-> text, buffer |-> <<>>,
                  outputBuffer |-> <<>>, events |-> <<>>, done |-> FALSE]

\* variant: one buffer declared at module level serves every call
PeerBufferShared == buffer

\* let buffer = "" inside parse: each call has a buffer of its own
\* (line 160)
PeerBuffer == peer.buffer

\* the source of the second call delivers a fragment; the call scans it
\* and its consumer collects the events (lines 163-219)
PeerFeed ==
    /\ ~peer.done
    /\ \E n \in 0 .. Len(peer.rest) :
          \E d \in {Drain(PeerBuffer \o Slice(peer.rest, 0, n),
                          peer.outputBuffer, peer.events)} :
              peer' = [peer EXCEPT !.rest = SliceFrom(peer.rest, n),
                                   !.buffer = d.buffer,
                                   !.outputBuffer = d.outputBuffer,
                                   !.events = d.events]
    /\ UNCHANGED <<total, rest, source, carries, emptyChunk, buffer,
                   outputBuffer, pc, demand, events, raws>>

\* the source of the second call ends: final flush and return
\* (lines 221-225)
PeerEnd ==
    /\ ~peer.done
    /\ peer.rest = <<>>
    /\ peer' =
          [peer EXCEPT
              !.events =
                  @ \o (IF HasResidue(peer.outputBuffer, peer.buffer)
                        THEN <<createOutput(peer.outputBuffer
                                            \o peer.buffer)>>
                        ELSE <<>>),
              !.done = TRUE]
    /\ UNCHANGED <<total, rest, source, carries, emptyChunk, buffer,
                   outputBuffer, pc, demand, events, raws>>

IsoNext == Next \/ PeerFeed \/ PeerEnd

IsoSpec == InitIso /\ [][IsoNext]_vars

TypeOK ==
    /\ pc \in {"next", "scan", "out", "seq", "fin", "done", "thrown"}
    /\ source \in {"open", "ended", "failed"}
    /\ demand \in BOOLEAN
    /\ carries \in 0 .. FragCap
    /\ Len(events) = Len(raws)

(***************************************************************************)
(* Helpers of the properties.                                              *)
(***************************************************************************)
IsSequenceEvent(e) == e.type # "output"
IsWellFormed(e) == e.type \in {A, B, C, D, E, P}
Finished == pc = "done"

\* the body of a sequence text: what stands between prefix and terminator
BodyOf(raw) == Slice(raw, Len(OSC633_START), Len(raw) - 1)

\* the part of total the source has delivered so far
Delivered == Slice(total, 0, Len(total) - Len(rest))

(***************************************************************************)
(* C1  Chunk-invariance: however the source cuts the total text into       *)
(* fragments, the events parse has emitted when it completes are exactly   *)
(* the events it emits for the same text delivered as one fragment.        *)
(***************************************************************************)
C1_ChunkInvariance == Finished => events = ParseWhole(total)

\* a text of at least three events whose delivery was cut at least FragCap
\* times inside text the scanner was holding back
C1_Witness ==
    /\ Finished
    /\ carries = FragCap
    /\ Len(events) >= 3
    /\ \E i \in 1 .. Len(events) : IsWellFormed(events[i])

(***************************************************************************)
(* C2  Round-trip as stated: concatenating every Output.value, every       *)
(* Invalid.sequence and the text re-encoded from the fields of every       *)
(* well-formed event gives back the total input.                           *)
(***************************************************************************)
\* wire-format escaping of a command or property value
RECURSIVE escapeWire(_)
escapeWire(s) ==
    IF Len(s) = 0 THEN <<>>
    ELSE (CASE Head(s) = "\\" -> <<"\\", "\\">>
            [] Head(s) = ";"  -> <<"\\", "x", "3", "b">>
            [] Head(s) = "\n" -> <<"\\", "x", "0", "a">>
            [] OTHER -> <<Head(s)>>) \o escapeWire(Tail(s))

Optional(field) == IF field = Undefined THEN <<>> ELSE <<";">> \o field

\* the sequence text that the wire format gives for an event
Reencode(e) ==
    CASE e.type = "output"  -> e.value
      [] e.type = "invalid" -> e.sequence
      [] e.type \in {A, B, C} -> OSC633_START \o <<e.type, ST>>
      [] e.type = D ->
           OSC633_START \o <<D>> \o Optional(e.exitCode) \o <<ST>>
      [] e.type = E ->
           OSC633_START \o <<E, ";">> \o escapeWire(e.command)
               \o Optional(e.nonce) \o <<ST>>
      [] e.type = P ->
           OSC633_START \o <<P, ";">> \o e.name \o <<"=">>
               \o escapeWire(e.value) \o <<ST>>

C2_RoundTripReencoded ==
    Finished => Concat([i \in 1 .. Len(events) |-> Reencode(events[i])]) = total

(***************************************************************************)
(* C2 (amended)  Concatenating every Output.value, every Invalid.sequence  *)
(* and, for every well-formed event, the text of the sequence it was       *)
(* decoded from (prefix, raw body, terminator) gives back the total input. *)
(***************************************************************************)
EventText(i) ==
    CASE events[i].type = "output"  -> events[i].value
      [] events[i].type = "invalid" -> events[i].sequence
      [] OTHER -> raws[i]

C2_RoundTripSource ==
    Finished =>
        /\ Concat([i \in 1 .. Len(events) |-> EventText(i)]) = total
        /\ \A i \in 1 .. Len(events) :
              IsWellFormed(events[i]) =>
                  /\ StartsWith(raws[i], OSC633_START)
                  /\ raws[i][Len(raws[i])] = ST
                  /\ events[i] = parseSequence(BodyOf(raws[i]))

\* output, a malformed sequence and a well-formed sequence in one stream
C2_Witness ==
    /\ Finished
    /\ \E i \in 1 .. Len(events) : events[i].type = "output"
    /\ \E i \in 1 .. Len(events) : events[i].type = "invalid"
    /\ \E i \in 1 .. Len(events) : IsWellFormed(events[i])

(***************************************************************************)
(* C3  No Output event is empty and no two Output events are adjacent.     *)
(***************************************************************************)
C3_OutputCoalesced ==
    \A i \in 1 .. Len(events) :
        events[i].type = "output" =>
            /\ Len(events[i].value) > 0
            /\ i > 1 => events[i - 1].type # "output"

\* plain text delivered in pieces on both sides of a sequence
C3_Witness ==
    /\ carries > 0
    /\ \E i \in 1 .. Len(events) - 2 :
          /\ events[i].type = "output" /\ Len(events[i].value) > 1
          /\ IsSequenceEvent(events[i + 1])
          /\ events[i + 2].type = "output"

(***************************************************************************)
(* C4  Events follow the input order: cutting the total text, from left    *)
(* to right, at each family prefix that has a terminator after it gives    *)
(* the list "text before, sequence, text between, sequence, ..., text      *)
(* after"; every such sequence yields exactly one event, the events come   *)
(* in that order, and the text before a sequence comes as an Output right  *)
(* before its event.  After every yield what has been emitted is a         *)
(* beginning of that list, and it is the whole list when parse completes.  *)
(***************************************************************************)
\* the positions where a terminated sequence starts in text
SequenceStarts(text) ==
    {p \in 0 .. Len(text) - 1 :
        /\ MatchAt(text, OSC633_START, p)
        /\ \E q \in p .. Len(text) - 1 : text[q + 1] = ST}

RECURSIVE InputOrder(_)
InputOrder(text) ==
    LET starts == SequenceStarts(text)
    IN  IF starts = {}
        THEN IF text = <<>> THEN <<>>
             ELSE <<[type |-> "output", value |-> text]>>
        ELSE LET p == CHOOSE x \in starts : \A y \in starts : x <= y
                 ends == {x \in p .. Len(text) - 1 : text[x + 1] = ST}
                 q == CHOOSE x \in ends : \A y \in ends : x <= y
                 before == SubSeq(text, 1, p)
                 body   == SubSeq(text, p + Len(OSC633_START) + 1, q)
             IN  (IF before = <<>> THEN <<>>
                  ELSE <<[type |-> "output", value |-> before]>>)
                 \o <<parseSequence(body)>>
                 \o InputOrder(SubSeq(text, q + 2, Len(text)))

C4_InputOrder ==
    pc \in {"out", "seq", "fin", "done"} =>
        LET expected == InputOrder(total)
        IN  /\ Len(events) <= Len(expected)
            /\ events = SubSeq(expected, 1, Len(events))
            /\ Finished => events = expected

\* a sequence, text and a second sequence, delivered in pieces
C4_Witness ==
    /\ Finished
    /\ carries > 0
    /\ Len(events) = 3
    /\ events[1].type = A
    /\ events[2].type = "output"
    /\ events[3].type = "invalid"

(***************************************************************************)
(* C5  An Invalid event loses nothing of what follows: it is reported in   *)
(* place with the text of the malformed sequence, and the events after it  *)
(* are exactly those of the input that follows the terminator of that      *)
(* sequence, each reported once.                                           *)
(***************************************************************************)
C5_InvalidResumes ==
    Finished =>
        \A i \in 1 .. Len(events) :
            events[i].type = "invalid" =>
                LET consumed == Concat(SubSeq(raws, 1, i))
                IN  /\ events[i].sequence = raws[i]
                    /\ consumed = Slice(total, 0, Len(consumed))
                    /\ SubSeq(events, i + 1, Len(events))
                           = ParseWhole(SliceFrom(total, Len(consumed)))

\* a malformed sequence followed by text and a well-formed sequence
C5_Witness ==
    /\ Finished
    /\ \E i \in 1 .. Len(events) - 2 :
          /\ events[i].type = "invalid"
          /\ events[i + 1].type = "output"
          /\ IsWellFormed(events[i + 2])

(***************************************************************************)
(* C6  No malformed sequence aborts the scan: parse ends by a fault only   *)
(* when the source failed, and every terminated sequence that misses a     *)
(* required field, has a malformed field or an unrecognized type is        *)
(* in the event stream as an Invalid value.                                *)
(***************************************************************************)
Malformed(parts) ==
    \/ parts[1] \notin {<<A>>, <<B>>, <<C>>, <<D>>, <<E>>, <<P>>}
    \/ parts[1] = <<E>> /\ Len(parts) < 2
    \/ /\ parts[1] = <<P>>
       /\ \/ Len(parts) < 2
          \/ \A k \in 1 .. Len(parts[2]) : parts[2][k] # "="
          \/ parts[2][1] = "="

C6_NeverAborts ==
    /\ pc = "thrown" => source = "failed"
    /\ \A i \in 1 .. Len(events) :
          (IsSequenceEvent(events[i]) /\ Malformed(Split(BodyOf(raws[i]), ";")))
              => events[i].type = "invalid"

\* two malformed sequences reported and the scan completed
C6_Witness ==
    /\ Finished
    /\ source = "ended"
    /\ \E i, j \in 1 .. Len(events) :
          /\ i < j
          /\ events[i].type = "invalid" /\ events[j].type = "invalid"
          /\ events[i].message # events[j].message

(***************************************************************************)
(* C7  When the source fails while parse awaits a fragment, the fault      *)
(* ends parse: the events emitted are exactly those the fragments          *)
(* received so far determine, pending text is not flushed, and no event    *)
(* follows the fault.                                                      *)
(***************************************************************************)
C7_SourceFaultPropagates ==
    /\ [](source = "failed" =>
            /\ pc = "thrown"
            /\ events = Drain(Delivered, <<>>, <<>>).events)
    /\ [][source = "failed" => (events' = events /\ pc' = pc)]_vars

\* the source failed after events were emitted and with text pending in
\* both buffers
C7_Witness ==
    /\ source = "failed"
    /\ pc = "thrown"
    /\ Len(events) > 0
    /\ Len(outputBuffer) > 0
    /\ Len(buffer) > 0

(***************************************************************************)
(* C8  Completion flush: when the source is exhausted, parse emits exactly *)
(* one more event, an Output whose value is the accumulator followed by    *)
(* the buffer, if either holds text, and no event if both are empty; an    *)
(* empty input gives an empty event stream.                                *)
(***************************************************************************)
C8_CompletionFlush ==
    /\ [][(source = "open" /\ source' = "ended") =>
            IF Len(outputBuffer) = 0 /\ Len(buffer) = 0
            THEN events' = events /\ pc' = "done"
            ELSE /\ events' = Append(events,
                                     [type  |-> "output",
                                      value |-> outputBuffer \o buffer])
                 /\ pc' = "fin"]_vars
    /\ [][source = "ended" => events' = events]_vars
    /\ []((Finished /\ total = <<>>) => events = <<>>)

\* no sequence was ever seen and both buffers held text at the end
C8_Witness ==
    /\ Finished
    /\ Len(outputBuffer) > 0
    /\ Len(buffer) > 0
    /\ events = <<[type |-> "output", value |-> outputBuffer \o buffer]>>

(***************************************************************************)
(* C9  A sequence still unterminated when the source ends (the family      *)
(* prefix without a terminator after it, or a proper prefix of the family  *)
(* prefix) is literal text at the end of the final Output; every Invalid   *)
(* event comes from a sequence whose terminator was received.              *)
(***************************************************************************)
C9_UnterminatedIsOutput ==
    /\ (source = "ended" /\ Len(buffer) > 0) =>
          /\ \/ StartsWith(buffer, OSC633_START)
             \/ buffer = SubSeq(OSC633_START, 1, Len(buffer))
          /\ \A k \in 1 .. Len(buffer) : buffer[k] # ST
          /\ events[Len(events)].type = "output"
          /\ LET value == events[Len(events)].value
             IN  SubSeq(value, Len(value) - Len(buffer) + 1, Len(value))
                     = buffer
    /\ \A i \in 1 .. Len(events) :
          events[i].type = "invalid" =>
              /\ raws[i][Len(raws[i])] = ST
              /\ Len(Concat(SubSeq(raws, 1, i))) <= Len(Delivered)

\* the source ended inside a sequence that would have been malformed
C9_Witness ==
    /\ Finished
    /\ buffer = OSC633_START \o <<ESC>>
    /\ \E i \in 1 .. Len(events) : events[i].type = "invalid"

(***************************************************************************)
(* C10  Termination: when the source delivers finitely many fragments and  *)
(* then ends, parse completes; it has then emitted at most one event per   *)
(* input character, it never completes before the source is exhausted,     *)
(* and every pass of the scanning loop that comes back to the head of the  *)
(* loop has made the pending-input buffer strictly shorter.                *)
(***************************************************************************)
C10_Termination ==
    /\ <>(Finished \/ source = "failed")
    /\ [](Len(events) <= Len(total))
    /\ [](pc \in {"fin", "done"} => (source = "ended" /\ rest = <<>>))
    /\ [][(pc \in {"scan", "seq"} /\ pc' = "scan") =>
              Len(buffer') < Len(buffer)]_vars

\* completed after passing a foreign introducer and decoding a sequence
C10_Witness ==
    /\ Finished
    /\ Len(events) = 2
    /\ events[1] = [type |-> "output", value |-> <<ESC>>]
    /\ events[2] = [type |-> A]

(***************************************************************************)
(* Helpers of the properties of the decoders.                              *)
(***************************************************************************)
\* the source holds one sequence, and its body split on the separator
IsSequenceText == StartsWith(total, OSC633_START)
BodyParts == Split(BodyOf(total), ";")

\* the text whose wire-format escaping is f, read from left to right
RECURSIVE decodeWire(_)
decodeWire(f) ==
    IF Len(f) = 0 THEN <<>>
    ELSE IF StartsWith(f, <<"\\", "\\">>)
    THEN <<"\\">> \o decodeWire(SliceFrom(f, 2))
    ELSE IF StartsWith(f, <<"\\", "x", "3", "b">>)
    THEN <<";">> \o decodeWire(SliceFrom(f, 4))
    ELSE IF StartsWith(f, <<"\\", "x", "0", "a">>)
    THEN <<"\n">> \o decodeWire(SliceFrom(f, 4))
    ELSE <<Head(f)>> \o decodeWire(Tail(f))

\* f is the wire-format escaping of some text
IsEscaped(f) == escapeWire(decodeWire(f)) = f

(***************************************************************************)
(* C11  Escaping round-trip: when the command of an E sequence, or the     *)
(* value of a P sequence, is the wire-format escaping of a text s, the     *)
(* event decoded from the sequence is a CommandLine whose command is s,    *)
(* respectively a PropertyUpdate whose value is s.                         *)
(***************************************************************************)
C11_EscapingRoundTrip ==
    (Finished /\ IsSequenceText /\ Len(BodyParts) = 2) =>
        LET field == BodyParts[2]
            value == SliceFrom(field, 2)
        IN  /\ (BodyParts[1] = <<E>> /\ IsEscaped(field)) =>
                  events = <<[type    |-> E,
                              command |-> decodeWire(field),
                              nonce   |-> Undefined]>>
            /\ (BodyParts[1] = <<P>> /\ StartsWith(field, <<"n", "=">>)
                   /\ IsEscaped(value)) =>
                  events = <<[type  |-> P,
                              name  |-> <<"n">>,
                              value |-> decodeWire(value)]>>

(***************************************************************************)
(* C12  Decoding an E body: the event is Invalid with the reason "Missing  *)
(* command parameter" exactly when the body has no second part; otherwise  *)
(* it is a CommandLine whose command is the second part unescaped (empty   *)
(* when the part is empty) and whose nonce is the third part as it stands, *)
(* or absent when there is no third part; later parts change nothing.      *)
(***************************************************************************)
C12_CommandLineDecoding ==
    (Finished /\ IsSequenceText /\ BodyParts[1] = <<E>>) =>
        /\ Len(events) = 1
        /\ events[1].type = "invalid" <=> Len(BodyParts) = 1
        /\ events[1].type = "invalid" =>
              events[1].message = <<"Missing command parameter">>
        /\ Len(BodyParts) >= 2 =>
              events[1] =
                  [type    |-> E,
                   command |-> unescapeValue(BodyParts[2]),
                   nonce   |-> IF Len(BodyParts) >= 3 THEN BodyParts[3]
                               ELSE Undefined]

\* an empty command, a nonce and a part after the nonce
C12_Witness ==
    /\ Finished /\ IsSequenceText
    /\ BodyParts = <<<<E>>, <<>>, <<"\\", "x", "3", "b">>, <<>>>>
    /\ events[1].type = E
    /\ events[1].command = <<>>
    /\ events[1].nonce = <<"\\", "x", "3", "b">>

(***************************************************************************)
(* C13  Decoding a P body: no second part gives Invalid "Missing           *)
(* name-value parameter"; a second part without '=' gives Invalid "Invalid *)
(* property format: missing '='"; a second part that begins with '=' gives *)
(* Invalid "Missing property name"; otherwise the event is a               *)
(* PropertyUpdate whose name is the text before the first '=' as it stands *)
(* (non-empty, without '=') and whose value is the text after the first    *)
(* '=' unescaped (possibly empty, possibly holding further '=').           *)
(***************************************************************************)
C13_PropertyUpdateDecoding ==
    (Finished /\ IsSequenceText /\ BodyParts[1] = <<P>>) =>
        /\ Len(events) = 1
        /\ IF Len(BodyParts) = 1
           THEN /\ events[1].type = "invalid"
                /\ events[1].message = <<"Missing name-value parameter">>
           ELSE LET second == BodyParts[2]
                    equals == {k \in 1 .. Len(second) : second[k] = "="}
                IN  IF equals = {}
                    THEN /\ events[1].type = "invalid"
                         /\ events[1].message =
                               <<"Invalid property format: missing '='">>
                    ELSE IF 1 \in equals
                    THEN /\ events[1].type = "invalid"
                         /\ events[1].message = <<"Missing property name">>
                    ELSE LET first == CHOOSE k \in equals :
                                          \A j \in equals : k <= j
                         IN  /\ events[1] =
                                   [type  |-> P,
                                    name  |-> SubSeq(second, 1, first - 1),
                                    value |-> unescapeValue(
                                        SubSeq(second, first + 1,
                                               Len(second)))]
                             /\ events[1].name # <<>>
                             /\ \A k \in 1 .. Len(events[1].name) :
                                   events[1].name[k] # "="

\* a value that holds a further '='
C13_Witness ==
    /\ Finished /\ IsSequenceText
    /\ BodyParts[1] = <<P>>
    /\ Len(BodyParts) >= 2
    /\ BodyParts[2] = <<"n", "=", "=", "\\">>
    /\ events[1] = [type |-> P, name |-> <<"n">>, value |-> <<"=", "\\">>]

(***************************************************************************)
(* C14  A body whose first part is none of A, B, C, D, E, P (the empty     *)
(* identifier, a lower-case letter, a token of several characters) gives   *)
(* an Invalid event whose reason is "Unknown sequence type: " followed by  *)
(* that first part and whose oscType is that first part.                   *)
(***************************************************************************)
C14_UnknownIdentifier ==
    (Finished /\ IsSequenceText
        /\ BodyParts[1] \notin {<<A>>, <<B>>, <<C>>, <<D>>, <<E>>, <<P>>}) =>
        /\ Len(events) = 1
        /\ events[1].type = "invalid"
        /\ events[1].message = <<"Unknown sequence type: ">> \o BodyParts[1]
        /\ events[1].oscType = BodyParts[1]

\* a lower-case identifier followed by further parts
C14_Witness ==
    /\ Finished /\ IsSequenceText
    /\ BodyParts[1] = <<"a">>
    /\ Len(BodyParts) >= 3
    /\ events[1].type = "invalid"
    /\ events[1].oscType = <<"a">>

(***************************************************************************)
(* C15  For every Invalid event, parts is the raw body cut at every ';'    *)
(* (nothing unescaped), oscType is the first of the parts, and sequence is *)
(* character for character the text of the sequence in the input.          *)
(***************************************************************************)
C15_InvalidKeepsText ==
    Finished =>
        \A i \in 1 .. Len(events) :
            events[i].type = "invalid" =>
                LET parts == events[i].parts
                IN  /\ Len(parts) >= 1
                    /\ Join(parts, ";") = BodyOf(total)
                    /\ \A k \in 1 .. Len(parts) :
                          \A j \in 1 .. Len(parts[k]) : parts[k][j] # ";"
                    /\ events[i].oscType = parts[1]
                    /\ events[i].sequence = total

\* a malformed sequence with an escape marker and an empty part in it
C15_Witness ==
    /\ Finished
    /\ Len(events) = 1
    /\ events[1].type = "invalid"
    /\ events[1].parts =
          <<<<P>>, <<"\\", "x", "3", "b">>, <<>>, <<"\\", "x", "3", "b">>>>

(***************************************************************************)
(* C16  A body whose first part is A, B or C gives the event of that type  *)
(* without payload, never Invalid, whatever parts follow.                  *)
(***************************************************************************)
C16_PromptMarkers ==
    (Finished /\ IsSequenceText
        /\ BodyParts[1] \in {<<A>>, <<B>>, <<C>>}) =>
        events = <<[type |-> BodyParts[1][1]]>>

\* a C body followed by three further parts
C16_Witness ==
    /\ Finished /\ IsSequenceText
    /\ BodyParts[1] = <<C>>
    /\ Len(BodyParts) = 4
    /\ events = <<[type |-> C]>>

(***************************************************************************)
(* C17  A body whose first part is D gives a CommandEnd, never Invalid:    *)
(* exitCode is absent exactly when the body has no second part, and is     *)
(* otherwise the second part as it stands, the empty text included; later  *)
(* parts change nothing.                                                   *)
(***************************************************************************)
C17_CommandEndDecoding ==
    (Finished /\ IsSequenceText /\ BodyParts[1] = <<D>>) =>
        /\ events =
              <<[type     |-> D,
                 exitCode |-> IF Len(BodyParts) = 1 THEN Undefined
                              ELSE BodyParts[2]]>>
        /\ events[1].exitCode = Undefined <=> Len(BodyParts) = 1

\* the body "D;": an exit code that is present and empty
C17_Witness ==
    /\ Finished
    /\ total = OSC633_START \o <<D, ";", ST>>
    /\ events = <<[type |-> D, exitCode |-> <<>>]>>

(***************************************************************************)
(* C18  Unescaping touches only the command of E and the value of P: the   *)
(* value of an Output, the exit code of D, the nonce of E, the name of P   *)
(* and the parts and sequence of an Invalid are the very characters of the *)
(* input, escape markers included.                                         *)
(***************************************************************************)
\* x stands in the input, character for character
Occurs(x) == \E p \in 0 .. Len(total) : MatchAt(total, x, p)

C18_UnescapingConfined ==
    Finished =>
        \A i \in 1 .. Len(events) :
            LET e == events[i]
            IN  CASE e.type = "output" -> e.value = total
                  [] e.type = D ->
                       e.exitCode # Undefined =>
                           e.exitCode = BodyParts[2] /\ Occurs(e.exitCode)
                  [] e.type = E ->
                       e.nonce # Undefined =>
                           e.nonce = BodyParts[3] /\ Occurs(e.nonce)
                  [] e.type = P ->
                       /\ StartsWith(BodyParts[2], e.name \o <<"=">>)
                       /\ Occurs(e.name)
                  [] e.type = "invalid" ->
                       /\ e.parts = BodyParts
                       /\ \A k \in 1 .. Len(e.parts) : Occurs(e.parts[k])
                       /\ e.sequence = total
                  [] OTHER -> TRUE

\* a command that is unescaped next to a nonce that is not
C18_Witness ==
    /\ Finished /\ IsSequenceText
    /\ BodyParts = <<<<E>>, <<"\\", "x", "3", "b">>, <<"\\", "x", "3", "b">>>>
    /\ events[1].command = <<";">>
    /\ events[1].nonce = <<"\\", "x", "3", "b">>

(***************************************************************************)
(* C19  Empty fragments are no-ops: the arrival of an empty fragment and   *)
(* the pass of the scanning loop that follows it change neither buffer,    *)
(* nor outputBuffer, nor the events emitted, and parse goes back to        *)
(* waiting for a fragment; and when the last fragment before the end of    *)
(* the source was empty, the events at completion are those of the same    *)
(* text delivered as one fragment with no empty fragment after it.         *)
(***************************************************************************)
C19_EmptyFragmentNoOp ==
    /\ [][(pc = "next" /\ pc' = "scan" /\ emptyChunk') =>
              UNCHANGED <<buffer, outputBuffer, events>>]_vars
    /\ [][(pc = "scan" /\ emptyChunk) =>
              (pc' = "next" /\ UNCHANGED <<buffer, outputBuffer, events>>)]_vars
    /\ []((Finished /\ emptyChunk) => events = ParseWhole(total))

\* an empty fragment has been scanned while both buffers held text and an
\* event had been emitted
C19_Witness ==
    /\ pc = "next"
    /\ emptyChunk
    /\ buffer # <<>>
    /\ outputBuffer # <<>>
    /\ Len(events) >= 1

(***************************************************************************)
(* C20  Two calls of parse over different sources, advanced in any         *)
(* interleaving, are isolated: each has emitted, whenever it has just      *)
(* emitted an event or has completed, a beginning of the events it emits   *)
(* for its own text delivered alone as one fragment, and all of them when  *)
(* it has completed; and no event of one call holds a character that only  *)
(* the source of the other call contains.                                  *)
(***************************************************************************)
\* event e holds the letter c
Mentions(e, c) ==
    CASE e.type = "output"  -> \E k \in 1 .. Len(e.value) : e.value[k] = c
      [] e.type = "invalid" ->
           \E k \in 1 .. Len(e.sequence) : e.sequence[k] = c
      [] OTHER -> e.type = c

IsBeginning(emitted, all) ==
    /\ Len(emitted) <= Len(all)
    /\ emitted = SubSeq(all, 1, Len(emitted))

C20_InstancesIsolated ==
    /\ pc \in {"out", "seq", "fin", "done"} =>
          IsBeginning(events, ParseWhole(total))
    /\ Finished => events = ParseWhole(total)
    /\ IsBeginning(peer.events, ParseWhole(peer.total))
    /\ peer.done => peer.events = ParseWhole(peer.total)
    /\ \A i \in 1 .. Len(events) : ~Mentions(events[i], B)
    /\ \A i \in 1 .. Len(peer.events) : ~Mentions(peer.events[i], A)

\* both calls hold text back at the same time, after the first has emitted
\* an event and before the second has emitted any
C20_Witness ==
    /\ buffer # <<>>
    /\ peer.buffer # <<>>
    /\ Len(events) >= 1
    /\ peer.events = <<>>
    /\ ~peer.done

(***************************************************************************)
(* C21  Backpressure: a fragment is taken from the source, and the source  *)
(* is found ended or failed, only while a request of the consumer for the  *)
(* next event is being served; every request is answered by at most one    *)
(* event, which ends the request; and while the consumer is not            *)
(* requesting, parse does nothing: it takes no fragment, moves no text     *)
(* and emits no event.                                                     *)
(***************************************************************************)
C21_Backpressure ==
    /\ [][(rest' # rest \/ source' # source \/ emptyChunk' # emptyChunk
              \/ (pc = "next" /\ pc' = "scan")) => demand]_vars
    /\ [][Len(events') # Len(events) =>
              (demand /\ ~demand' /\ Len(events') = Len(events) + 1)]_vars
    /\ [][~demand =>
              UNCHANGED <<rest, source, buffer, outputBuffer, pc, events>>]_vars

\* an event has been handed over, the consumer has not asked again, and
\* the source still holds text
C21_Witness ==
    /\ pc \in {"out", "seq"}
    /\ ~demand
    /\ Len(events) >= 1
    /\ rest # <<>>
    /\ source = "open"

(***************************************************************************)
(* Helpers of the properties of the scanning loop.                         *)
(***************************************************************************)
IsPrefixOf(a, b) == Len(a) <= Len(b) /\ a = SubSeq(b, 1, Len(a))

HasEsc(text) == \E i \in 1 .. Len(text) : text[i] = ESC

\* the 1-based position of the first introducer of text
FirstEsc(text) ==
    CHOOSE i \in 1 .. Len(text) :
        text[i] = ESC /\ \A j \in 1 .. i - 1 : text[j] # ESC

\* the first introducer of text begins neither the family prefix nor a
\* beginning of it
HasStray(text) ==
    /\ HasEsc(text)
    /\ LET from == SubSeq(text, FirstEsc(text), Len(text))
       IN  ~IsPrefixOf(from, OSC633_START) /\ ~IsPrefixOf(OSC633_START, from)

\* text holds the family prefix with a terminator somewhere after it
HasCompleteSequence(text) ==
    \E p \in 0 .. Len(text) - 1 :
        /\ MatchAt(text, OSC633_START, p)
        /\ \E q \in p + Len(OSC633_START) + 1 .. Len(text) : text[q] = ST

(***************************************************************************)
(* C22  An introducer that begins neither the family prefix nor a          *)
(* beginning of it is moved to the pending output together with the text   *)
(* before it, no event is emitted for it, and scanning goes on at the very *)
(* next character; so the input ESC ESC ]633;A BEL gives Output(ESC) and   *)
(* then the A event.                                                       *)
(***************************************************************************)
C22_StrayIntroducer ==
    /\ [][(pc = "scan" /\ HasStray(buffer)) =>
              /\ outputBuffer' =
                    outputBuffer \o SubSeq(buffer, 1, FirstEsc(buffer))
              /\ buffer' = SubSeq(buffer, FirstEsc(buffer) + 1, Len(buffer))
              /\ pc' = "scan"
              /\ events' = events]_vars
    /\ []((Finished /\ total = <<ESC>> \o OSC633_START \o <<A, ST>>) =>
              events = <<[type |-> "output", value |-> <<ESC>>],
                         [type |-> A]>>)

\* ESC ESC ]633;A BEL, delivered in several fragments, has been scanned
C22_Witness ==
    /\ Finished
    /\ total = <<ESC>> \o OSC633_START \o <<A, ST>>
    /\ carries > 0
    /\ Len(events) = 2

(***************************************************************************)
(* C23  When parse waits with a proper beginning of the family prefix in   *)
(* the buffer and the next fragment continues it with text that does not   *)
(* match, the fragment is appended to what was held back, the introducer   *)
(* is then moved to the pending output once and nothing else changes, and  *)
(* no event is made of it.  At every pass of the loop the text of the      *)
(* events, the pending output and the buffer make up, in this order, the   *)
(* text delivered so far.  A text without a complete sequence comes out as *)
(* one Output holding it whole, and whenever a fragment arrived on text    *)
(* held back the events at completion are those of the one-fragment run.   *)
(***************************************************************************)
\* events, pending output and buffer, in this order, are what was delivered
Conserved == Concat(raws) \o outputBuffer \o buffer = Delivered

C23_HeldPrefixReleased ==
    /\ [][(pc = "next" /\ pc' = "scan" /\ buffer # <<>>
              /\ IsPrefixOf(buffer, OSC633_START) /\ HasStray(buffer')) =>
              (IsPrefixOf(buffer, buffer')
                  /\ UNCHANGED <<outputBuffer, events>>)]_vars
    /\ [][(pc = "scan" /\ buffer # <<>> /\ Head(buffer) = ESC
              /\ HasStray(buffer)) =>
              /\ outputBuffer' = Append(outputBuffer, ESC)
              /\ buffer' = Tail(buffer)
              /\ events' = events]_vars
    /\ [](pc \in {"next", "scan"} => Conserved)
    /\ []((Finished /\ ~HasCompleteSequence(total)) =>
              events = IF total = <<>> THEN <<>>
                       ELSE <<[type |-> "output", value |-> total]>>)
    /\ []((Finished /\ carries > 0) => events = ParseWhole(total))

\* ESC ] was held back, "A;" arrived after it, and all came out as one
\* Output
C23_Witness ==
    /\ Finished
    /\ carries > 0
    /\ total = <<ESC, "]", "A", ";">>
    /\ events = <<[type |-> "output", value |-> total]>>

(***************************************************************************)
(* C24  Eager draining: whenever parse waits for the next fragment, the    *)
(* buffer holds no complete sequence, and every sequence that is complete  *)
(* in the text delivered so far has had its event emitted, in order.       *)
(***************************************************************************)
C24_EagerDraining ==
    pc = "next" =>
        /\ ~HasCompleteSequence(buffer)
        /\ SelectSeq(events, IsSequenceEvent)
              = SelectSeq(InputOrder(Delivered), IsSequenceEvent)

\* parse waits for more text after the events of two sequences
C24_Witness ==
    /\ pc = "next"
    /\ demand
    /\ carries = 0
    /\ rest # <<>>
    /\ Len(SelectSeq(events, IsSequenceEvent)) >= 2

(***************************************************************************)
(* C25  Whenever parse waits for the next fragment, the buffer is empty,   *)
(* or a non-empty proper beginning of the family prefix, or text that      *)
(* starts with the whole family prefix and holds no terminator; and the    *)
(* text delivered before what the buffer holds is in the events emitted    *)
(* and the pending output, in this order.                                  *)
(***************************************************************************)
C25_WaitingBuffer ==
    pc = "next" =>
        /\ \/ buffer = <<>>
           \/ /\ IsPrefixOf(buffer, OSC633_START)
              /\ buffer # OSC633_START
           \/ /\ IsPrefixOf(OSC633_START, buffer)
              /\ \A k \in 1 .. Len(buffer) : buffer[k] # ST
        /\ Concat(raws) \o outputBuffer
              = SubSeq(Delivered, 1, Len(Delivered) - Len(buffer))
        /\ buffer
              = SubSeq(Delivered, Len(Delivered) - Len(buffer) + 1,
                       Len(Delivered))

\* parse waits with a proper beginning of the family prefix in the buffer,
\* text in the pending output and an event emitted
C25_Witness ==
    /\ pc = "next"
    /\ buffer = <<ESC, "]">>
    /\ outputBuffer # <<>>
    /\ Len(events) >= 1

(***************************************************************************)
(* C26  Unescaping substitutes the ';' marker, then the newline marker,    *)
(* then the doubled backslash, and nothing a substitution has produced is  *)
(* read again by a later one: the command of E and the value of P are what *)
(* the three substitutions give, in this order, when every character they  *)
(* produce is sealed until all three are done.                             *)
(***************************************************************************)
\* the three substitutions in order, each product a token of its own that
\* is part of no marker
Sealed(value) ==
    ReplaceAll(
        ReplaceAll(
            ReplaceAll(value, <<"\\", "x", "3", "b">>, <<"[;]">>),
            <<"\\", "x", "0", "a">>, <<"[nl]">>),
        <<"\\", "\\">>, <<"[bs]">>)

Reveal(sealed) ==
    [k \in 1 .. Len(sealed) |->
        CASE sealed[k] = "[;]"  -> ";"
          [] sealed[k] = "[nl]" -> "\n"
          [] sealed[k] = "[bs]" -> "\\"
          [] OTHER -> sealed[k]]

C26_NoDoubleUnescape ==
    (Finished /\ IsSequenceText /\ Len(events) = 1) =>
        /\ events[1].type = E =>
              events[1].command = Reveal(Sealed(BodyParts[2]))
        /\ events[1].type = P =>
              events[1].value =
                  Reveal(Sealed(SliceFrom(BodyParts[2],
                                          Len(events[1].name) + 1)))

\* a newline marker right after a backslash: it is substituted first, and
\* the backslash pass then reads nothing that was produced before it
C26_Witness ==
    /\ Finished /\ IsSequenceText
    /\ BodyParts = <<<<E>>, <<"\\", "\\", "x", "0", "a">>>>
    /\ events[1].command = <<"\\", "\n">>

(***************************************************************************)
(* C27  No Output value holds a complete sequence: in no emitted Output    *)
(* does the family prefix stand with a terminator anywhere after it; and   *)
(* when the whole text holds a complete sequence, parse has emitted a      *)
(* sequence event by the time it completes.                                *)
(***************************************************************************)
C27_NoSequenceInOutput ==
    /\ \A i \in 1 .. Len(events) :
          events[i].type = "output" => ~HasCompleteSequence(events[i].value)
    /\ (Finished /\ HasCompleteSequence(total)) =>
          \E i \in 1 .. Len(events) : IsSequenceEvent(events[i])

\* an Output that holds a terminator and, after it, the family prefix of a
\* sequence that was never terminated
C27_Witness ==
    /\ Finished
    /\ carries > 0
    /\ \E i \in 1 .. Len(events) :
          /\ events[i].type = "output"
          /\ \E p \in 1 .. Len(events[i].value) :
                /\ events[i].value[p] = ST
                /\ MatchAt(events[i].value, OSC633_START, p)

(***************************************************************************)
(* C28  Plain text is emitted late: an Output event is emitted only right  *)
(* before the event of a complete sequence found in the buffer, or when    *)
(* the source has ended; leaving the loop to wait for a fragment emits     *)
(* nothing; and as long as the source is open and the text delivered holds *)
(* no complete sequence, no event at all has been emitted.                 *)
(***************************************************************************)
C28_OutputEmittedLate ==
    /\ [][(Len(events') > Len(events)
              /\ events'[Len(events')].type = "output") =>
              \/ pc' = "out" /\ HasCompleteSequence(buffer')
              \/ pc' = "fin" /\ source' = "ended" /\ rest' = <<>>]_vars
    /\ [][(pc = "scan" /\ pc' = "next") => events' = events]_vars
    /\ []((source = "open" /\ ~HasCompleteSequence(Delivered)) =>
              events = <<>>)

\* several fragments of plain text have ended and nothing has been emitted
C28_Witness ==
    /\ pc = "next"
    /\ source = "open"
    /\ carries > 0
    /\ rest = <<>>
    /\ outputBuffer # <<>>
    /\ events = <<>>

====
